---------------------------- MODULE Spec2Model ----------------------------
(***************************************************************************)
(* A model of the LSA course-guide scraper (src/main.js): one scheduled    *)
(* run of handler fetches the cached catalog, fetches one detail page per  *)
(* course under async.mapLimit, extracts section records, reads the prior  *)
(* overview as capacity hints, aggregates, and puts two objects.           *)
(*                                                                         *)
(* Text is modelled as a sequence of one-character strings, so that        *)
(* split(":"), trim(), includes(), slice() and the numeric coercion of     *)
(* JavaScript are computed rather than assumed.                            *)
(***************************************************************************)
EXTENDS Integers, Sequences, FiniteSets, TLC

(***************************************************************************)
(* JavaScript values                                                       *)
(***************************************************************************)

\* undefined: what reading an absent property yields.  It is a tuple, like
\* every text, but no text: its only element is not a single character.
Undefined == <<"undefined">>

\* null, the "unavailable" result of getCourses and getOverview, and a value
\* that is not null.
Null == [null |-> TRUE, value |-> <<>>]

NotNull(v) == [null |-> FALSE, value |-> v]

\* A JavaScript number is an integer or NaN.
Num(n) == [nan |-> FALSE, v |-> n]

NaN == [nan |-> TRUE, v |-> 0]

Digits == <<"0", "1", "2", "3", "4", "5", "6", "7", "8", "9">>

IsDigit(c) == \E i \in 1..10 : Digits[i] = c

DigitValue(c) == (CHOOSE i \in 1..10 : Digits[i] = c) - 1

IsSpace(c) == c \in {" ", "\n", "\t"}

\* String.prototype.trim
RECURSIVE TrimLeft(_)
TrimLeft(s) ==
    IF s # <<>> /\ IsSpace(Head(s)) THEN TrimLeft(Tail(s)) ELSE s

RECURSIVE TrimRight(_)
TrimRight(s) ==
    IF s # <<>> /\ IsSpace(s[Len(s)])
    THEN TrimRight(SubSeq(s, 1, Len(s) - 1))
    ELSE s

Trim(s) == TrimRight(TrimLeft(s))

\* String.prototype.split(":"): the pieces between the colons.
RECURSIVE Split(_)
Split(s) ==
    IF \E i \in 1..Len(s) : s[i] = ":"
    THEN LET i == CHOOSE j \in 1..Len(s) :
                     s[j] = ":" /\ \A k \in 1..(j - 1) : s[k] # ":"
         IN  <<SubSeq(s, 1, i - 1)>> \o Split(SubSeq(s, i + 1, Len(s)))
    ELSE <<s>>

\* String.prototype.includes
Includes(s, m) ==
    \E i \in 0..(Len(s) - Len(m)) : SubSeq(s, i + 1, i + Len(m)) = m

\* String.prototype.slice(from) and slice(0, to) with a negative argument.
SliceLast(s, k) == SubSeq(s, IF Len(s) > k THEN Len(s) - k + 1 ELSE 1, Len(s))

SliceButLast(s, k) == SubSeq(s, 1, Len(s) - k)

\* The value of a run of decimal digits.
RECURSIVE DigitsValue(_)
DigitsValue(s) ==
    IF s = <<>> THEN 0
    ELSE 10 * DigitsValue(SubSeq(s, 1, Len(s) - 1)) + DigitValue(s[Len(s)])

AllDigits(s) == s # <<>> /\ \A i \in 1..Len(s) : IsDigit(s[i])

\* Unary plus / Number(): undefined is NaN; a string is trimmed, "" is 0, an
\* optionally signed run of digits is its value, anything else is NaN.
\* (Fractions, exponents and hexadecimal do not occur in the pages modelled.)
ToNumber(x) ==
    IF x = Undefined THEN NaN
    ELSE LET t == Trim(x)
         IN  IF t = <<>> THEN Num(0)
             ELSE IF AllDigits(t) THEN Num(DigitsValue(t))
             ELSE IF Head(t) = "-" /\ AllDigits(Tail(t))
                  THEN Num(0 - DigitsValue(Tail(t)))
             ELSE IF Head(t) = "+" /\ AllDigits(Tail(t))
                  THEN Num(DigitsValue(Tail(t)))
             ELSE NaN

\* Number to string, as csvFormat and string concatenation produce it.
RECURSIVE Decimal(_)
Decimal(n) ==
    IF n < 0 THEN <<"-">> \o Decimal(0 - n)
    ELSE IF n < 10 THEN <<Digits[n + 1]>>
    ELSE Decimal(n \div 10) \o <<Digits[(n % 10) + 1]>>

NumberToString(x) == IF x.nan THEN <<"N", "a", "N">> ELSE Decimal(x.v)

\* d3.sum(values, f): adds the coerced values, skipping NaN (and 0).
RECURSIVE sum(_)
sum(nums) ==
    IF nums = <<>> THEN 0
    ELSE (IF Head(nums).nan THEN 0 ELSE Head(nums).v) + sum(Tail(nums))

(***************************************************************************)
(* The texts the program names                                             *)
(***************************************************************************)

K_Section == <<"S", "e", "c", "t", "i", "o", "n">>

K_OpenSeats == <<"O", "p", "e", "n", " ", "S", "e", "a", "t", "s">>

K_WaitList == <<"W", "a", "i", "t", " ", "L", "i", "s", "t">>

K_InstructionMode ==
    <<"I", "n", "s", "t", "r", "u", "c", "t", "i", "o", "n", " ", "M", "o", "d", "e">>

K_ClassNo == <<"C", "l", "a", "s", "s", " ", "N", "o">>

K_EnrollStat == <<"E", "n", "r", "o", "l", "l", " ", "S", "t", "a", "t">>

LEC == <<"L", "E", "C">>

SEM == <<"S", "E", "M">>

REC == <<"R", "E", "C">>

IND == <<"I", "N", "D">>

STDABRD == <<"S", "T", "D", "A", "B", "R", "D">>

Dash == <<"-">>

(***************************************************************************)
(* dateToNearestHour                                                       *)
(***************************************************************************)

\* number of milliseconds in an hour
rounder == 60 * 60 * 1000

\* Math.round(x / rounder): the nearest integer, a half rounding up.
MathRoundDiv(x, d) == (2 * x + d) \div (2 * d)

\* A key that keeps the day only.
dateToNearestDay(now) == MathRoundDiv(now, 24 * rounder) * (24 * rounder)

\* The instant rounded to the nearest hour.  toISOString is one-to-one on
\* instants, so the rounded instant stands for the string.
dateToNearestHour(now) == MathRoundDiv(now, rounder) * rounder

(***************************************************************************)
(* getCourseSections: the extraction of one detail page.  A page is the    *)
(* sequence of its ".row.clsschedulerow" rows, a row the sequence of the   *)
(* textContent of its ".col-md-1" cells.                                   *)
(***************************************************************************)

\* let [key, value] = column.textContent.trim().split(":")
CellKey(cell) == Split(Trim(cell))[1]

CellValue(cell) ==
    LET parts == Split(Trim(cell))
    IN  IF Len(parts) >= 2 THEN parts[2] ELSE Undefined

\* value.trim() on undefined is a TypeError.
CellThrows(cell) == CellValue(cell) = Undefined

\* section[key] = value, cell after cell: a later cell overrides an earlier
\* one with the same key.
RECURSIVE SetFields(_, _)
SetFields(fields, cells) ==
    IF cells = <<>> THEN fields
    ELSE LET key   == CellKey(Head(cells))
             value == Trim(CellValue(Head(cells)))
         IN  SetFields([k \in DOMAIN fields \cup {key} |->
                            IF k = key THEN value ELSE fields[k]],
                       Tail(cells))

NoFields == [k \in {} |-> <<>>]

RowSection(name, title, now, row) ==
    [Course |-> name, Time |-> dateToNearestHour(now), title |-> title,
     fields |-> SetFields(NoFields, row)]

PageThrows(page) ==
    \E r \in 1..Len(page) : \E c \in 1..Len(page[r]) : CellThrows(page[r][c])

PageSections(name, title, now, page) ==
    [r \in 1..Len(page) |-> RowSection(name, title, now, page[r])]

\* d[key]: undefined when the page row carried no such label.
Get(d, key) == IF key \in DOMAIN d.fields THEN d.fields[key] ELSE Undefined

(***************************************************************************)
(* sections.flat()                                                         *)
(***************************************************************************)

RECURSIVE FlatUpTo(_, _)
FlatUpTo(lists, n) ==
    IF n = 0 THEN <<>> ELSE FlatUpTo(lists, n - 1) \o lists[n]

Flat(lists) == FlatUpTo(lists, Len(lists))

(***************************************************************************)
(* The aggregation of handler                                              *)
(***************************************************************************)

\* A filter that also keeps the discussion sections.
IsPrimaryOrDIS(d) ==
    \/ Includes(Get(d, K_Section), LEC)
    \/ Includes(Get(d, K_Section), SEM)
    \/ Includes(Get(d, K_Section), REC)
    \/ Includes(Get(d, K_Section), IND)
    \/ Includes(Get(d, K_Section), <<"D", "I", "S">>)

\* d.Section.includes(...) on a record without a Section is a TypeError.
FilterThrows(secs) == \E i \in 1..Len(secs) : Get(secs[i], K_Section) = Undefined

IsPrimary(d) ==
    \/ Includes(Get(d, K_Section), LEC)
    \/ Includes(Get(d, K_Section), SEM)
    \/ Includes(Get(d, K_Section), REC)
    \/ Includes(Get(d, K_Section), IND)

\* The keys of d3.rollups, in order of first appearance.
RECURSIVE GroupKeys(_)
GroupKeys(secs) ==
    IF secs = <<>> THEN <<>>
    ELSE LET init == GroupKeys(SubSeq(secs, 1, Len(secs) - 1))
             c    == secs[Len(secs)].Course
         IN  IF \E i \in 1..Len(init) : init[i] = c
             THEN init ELSE Append(init, c)

\* A grouping that takes the first run of consecutive records of a course.
RECURSIVE GroupRun(_, _)
GroupRun(secs, c) ==
    IF secs = <<>> THEN <<>>
    ELSE IF Head(secs).Course # c THEN GroupRun(Tail(secs), c)
    ELSE LET n == CHOOSE m \in 1..Len(secs) :
                     /\ \A k \in 1..m : secs[k].Course = c
                     /\ m = Len(secs) \/ secs[m + 1].Course # c
         IN  SubSeq(secs, 1, n)

Group(secs, c) == SelectSeq(secs, LAMBDA d : d.Course = c)

\* A reducer that takes the open seats of the first section of the group.
OpenSeatsOfFirst(v) == <<ToNumber(Get(v[1], K_OpenSeats))>>

OpenSeatsOf(v) == [i \in 1..Len(v) |-> ToNumber(Get(v[i], K_OpenSeats))]

\* d["Wait List"] === "-" ? 0 : +d["Wait List"]
WaitListOf(d) ==
    IF Get(d, K_WaitList) = Dash THEN Num(0) ELSE ToNumber(Get(d, K_WaitList))

WaitListsOf(v) == [i \in 1..Len(v) |-> WaitListOf(v[i])]

\* overview.has(course): the index is a function from key to parsed row.
Has(overview, course) == ~overview.null /\ course \in DOMAIN overview.value

\* A capacity that takes the hint when the hint is the smaller.
CapacityLowered(available, overview, course) ==
    IF Has(overview, course)
    THEN LET potential == overview.value[course].capacity
         IN  IF ~potential.nan /\ potential.v < available
             THEN potential.v ELSE available
    ELSE available

\* potential > capacity: false when potential is NaN.
Capacity(available, overview, course) ==
    IF Has(overview, course)
    THEN LET potential == overview.value[course].capacity
         IN  IF ~potential.nan /\ potential.v > available
             THEN potential.v ELSE available
    ELSE available

\* The reducer of rollups: one summary for the group v of one course.
\* percent_available is kept as the pair it is the quotient of.
Summary(v, overview) ==
    LET course    == v[1].Course
        number    == ToNumber(SliceLast(course, 3))
        available == sum(OpenSeatsOf(v))
        capacity  == Capacity(available, overview, course)
    IN  [department |-> SliceButLast(course, 3),
         number |-> number,
         title |-> v[1].title,
         capacity |-> capacity,
         available |-> available,
         percent_available |-> <<available, capacity>>,
         waitlist |-> sum(WaitListsOf(v)),
         undergrad |-> (~number.nan /\ number.v < 500),
         studyAbroad |-> Includes(course, STDABRD)]

Primary(secs, overview) ==
    LET filtered == SelectSeq(secs, IsPrimary)
        keys     == GroupKeys(filtered)
    IN  [k \in 1..Len(keys) |-> Summary(Group(filtered, keys[k]), overview)]

\* The projection written as the stub table.
StubRow(d) ==
    [Course |-> d.Course, Time |-> d.Time,
     Section |-> Get(d, K_Section),
     Mode |-> Get(d, K_InstructionMode),
     Number |-> Get(d, K_ClassNo),
     Status |-> Get(d, K_EnrollStat),
     OpenSeats |-> Get(d, K_OpenSeats),
     WaitList |-> WaitListOf(d)]

Stub(secs) == [i \in 1..Len(secs) |-> StubRow(secs[i])]

(***************************************************************************)
(* The overview table as text, and getOverview's reading of it             *)
(***************************************************************************)

\* csvFormat(primary): every number becomes its decimal text.
CsvRow(row) ==
    [department |-> row.department,
     number |-> NumberToString(row.number),
     title |-> row.title,
     capacity |-> Decimal(row.capacity),
     available |-> Decimal(row.available),
     percent_available |-> row.percent_available,
     waitlist |-> Decimal(row.waitlist),
     undergrad |-> row.undergrad,
     studyAbroad |-> row.studyAbroad]

csvFormat(rows) == [i \in 1..Len(rows) |-> CsvRow(rows[i])]

\* csvParse(text, autoType): the numeric columns are numbers again; the
\* department of a course, being letters, stays text.
AutoTypeRow(line) ==
    [department |-> line.department,
     number |-> ToNumber(line.number),
     capacity |-> ToNumber(line.capacity)]

\* index(rows, d => d.department + d.number).  The table holds one row per
\* course, so the keys are distinct.
\* A key with a space between department and number.
OverviewKeySpaced(d) == d.department \o <<" ">> \o NumberToString(d.number)

OverviewKey(d) == d.department \o NumberToString(d.number)

index(body) ==
    LET rows == [i \in 1..Len(body) |-> AutoTypeRow(body[i])]
        keys == {OverviewKey(rows[i]) : i \in 1..Len(rows)}
    IN  [k \in keys |->
            rows[CHOOSE i \in 1..Len(rows) : OverviewKey(rows[i]) = k]]

(***************************************************************************)
(* The world outside the program: catalogs, detail pages, prior overviews  *)
(***************************************************************************)

EECS485 == <<"E", "E", "C", "S", "4", "8", "5">>

MATH115 == <<"M", "A", "T", "H", "1", "1", "5">>

STDABRD303 == STDABRD \o <<"3", "0", "3">>

\* One line of cache-courses.csv.
CatalogLine(course, title) == [course |-> course, suffix |-> "001", title |-> title]

\* The text of a cell carrying a label and a value.
Cell(label, value) == label \o <<":", " ">> \o value

RowLEC ==
    << <<" ">> \o Cell(K_Section, <<"L", "E", "C", "0", "0", "1">>) \o <<" ">>,
       Cell(K_EnrollStat, <<"O", "p", "e", "n">>),
       Cell(K_OpenSeats, <<"5">>),
       Cell(K_WaitList, Dash) >>

RowDIS ==
    << Cell(K_Section, <<"D", "I", "S", "2", "0", "1">>),
       Cell(K_OpenSeats, <<"1", "0">>),
       Cell(K_WaitList, <<"4">>) >>

RowIND ==
    << Cell(K_Section, <<"I", "N", "D", "4", "0", "1">>),
       Cell(K_OpenSeats, <<"2">>),
       Cell(K_WaitList, <<"3">>) >>

\* A row whose cells carry no "Wait List" label.
RowNoWaitList ==
    << Cell(K_Section, <<"S", "E", "M", "0", "0", "2">>),
       Cell(K_OpenSeats, <<"1">>) >>

\* A row whose cells carry no "Open Seats" label.
RowNoOpenSeats ==
    << Cell(K_Section, <<"R", "E", "C", "0", "1", "1">>),
       Cell(K_WaitList, <<"1">>) >>

\* A row whose cells carry no "Section" label.
RowNoSection ==
    << Cell(K_OpenSeats, <<"5">>), Cell(K_WaitList, Dash) >>

\* A row with a cell that is not of the "Key: Value" shape.
RowNoColon ==
    << Cell(K_Section, <<"L", "E", "C", "0", "0", "1">>),
       <<"N", "o", "t", "e", "s">> >>

PageEmpty == <<>>

PageLecDisInd == <<RowLEC, RowDIS, RowIND>>

PageLec == <<RowLEC>>

PageDisOnly == <<RowDIS>>

PageNoWaitList == <<RowNoWaitList>>

PageNoOpenSeats == <<RowNoOpenSeats, RowIND>>

PageNoSection == <<RowNoSection>>

PageNoColon == <<RowNoColon>>

Pages ==
    {PageEmpty, PageLecDisInd, PageLec, PageDisOnly, PageNoWaitList,
     PageNoOpenSeats, PageNoSection, PageNoColon}

\* No object under a key, and an object with its body.
Absent == [exists |-> FALSE, body |-> <<>>]

Object(body) == [exists |-> TRUE, body |-> body]

\* An overview.csv a previous run left: EECS485 with capacity 6.
PriorOverview ==
    Object(csvFormat(<< [department |-> SliceButLast(EECS485, 3),
                  number |-> Num(485), title |-> "Web Systems",
                  capacity |-> 6, available |-> 3,
                  percent_available |-> <<3, 6>>, waitlist |-> 0,
                  undergrad |-> TRUE, studyAbroad |-> FALSE] >>))

(***************************************************************************)
(* State                                                                   *)
(***************************************************************************)

VARIABLES
    env,        \* the world of this behaviour: catalog, pages served, ...
    clock,      \* new Date().getTime(), in milliseconds
    run,        \* the number of invocations of handler so far
    pc,         \* where the current invocation of handler is suspended
    courses,    \* handler: the Map of getCourses, or null
    pool,       \* async.mapLimit: next, running, done, and each task's state
    results,    \* async.mapLimit: the result list of each course
    sections,   \* handler: the flattened records
    overview,   \* handler: the index of getOverview, or null
    primary,    \* handler: the summaries
    stub,       \* handler: the stub rows
    stubKey,    \* the timestamp in the key of the pending stub put
    store,      \* the bucket: overview.csv and the stub objects
    log,        \* what this invocation has requested and written
    stubKeys    \* the stub key each finished invocation has written

vars ==
    <<env, clock, run, pc, courses, pool, results, sections, overview,
      primary, stub, stubKey, store, log, stubKeys>>

\* The instants the clock is observed at are half hours apart.
TickMs == 30 * 60 * 1000

\* The clock advances at most this many times.
MaxTicks == 2

\* The scheduler invokes handler at most this many times.
MaxRuns == 2

\* The number of concurrent operations getSections allows.
NUM_OPERATIONS == 25

(***************************************************************************)
(* async.mapLimit(courses.entries(), NUM_OPERATIONS, getCourseSections),   *)
(* as the async library runs it: a counter of running tasks, a loop that   *)
(* starts tasks while the counter is under the limit, and a callback per   *)
(* task that lowers the counter and runs the loop again.                   *)
(***************************************************************************)

\* calls counts, for each task, the requests getCourseSections has issued for
\* its detail page.
EmptyPool ==
    [next |-> 0, running |-> 0, done |-> FALSE, task |-> <<>>, calls |-> <<>>]

NewPool(n) ==
    [next |-> 0, running |-> 0, done |-> FALSE,
     task |-> [i \in 1..n |-> "new"], calls |-> [i \in 1..n |-> 0]]

\* A pool that starts tasks whatever the number running.
MayStartUnlimited(p) == ~p.done

\* The condition of the loop that starts tasks.
MayStart(p) == p.running < NUM_OPERATIONS /\ ~p.done

\* replenish: start tasks while a slot is free; when the iterator is
\* exhausted the pool is done.
RECURSIVE replenish(_)
replenish(p) ==
    IF MayStart(p)
    THEN IF p.next = Len(p.task)
         THEN [p EXCEPT !.done = TRUE]
         ELSE replenish([p EXCEPT !.next = @ + 1, !.running = @ + 1,
                                  !.task[p.next + 1] = "fetch",
                                  !.calls[p.next + 1] = @ + 1])
    ELSE p

\* A callback that delivers the results as soon as the iterator is
\* exhausted, whatever the number of tasks still running.
iterateeCallbackEarly(p, err) ==
    LET q == [p EXCEPT !.running = @ - 1]
        r == replenish(q)
    IN  IF err THEN [pool |-> [q EXCEPT !.done = TRUE], cb |-> "err"]
        ELSE IF q.done THEN [pool |-> q, cb |-> "null"]
        ELSE [pool |-> r, cb |-> IF r.done THEN "null" ELSE "none"]

\* A callback that never delivers the results.
iterateeCallbackSilent(p, err) ==
    LET q == [p EXCEPT !.running = @ - 1]
    IN  IF err THEN [pool |-> [q EXCEPT !.done = TRUE], cb |-> "err"]
        ELSE [pool |-> replenish(q), cb |-> "none"]

\* The callback a task ends with.  It answers the pool after the call and
\* which final callback of mapLimit, if any, it made: "err", "null" (all
\* tasks settled, the results are delivered) or "none".
iterateeCallback(p, err) ==
    LET q == [p EXCEPT !.running = @ - 1]
        r == replenish(q)
    IN  IF err THEN [pool |-> [q EXCEPT !.done = TRUE], cb |-> "err"]
        ELSE IF q.done /\ q.running <= 0 THEN [pool |-> q, cb |-> "null"]
        ELSE [pool |-> r,
              cb |-> IF r.done /\ ~q.done /\ r.running <= 0
                     THEN "null" ELSE "none"]

\* The tasks whose fetch has started and has not settled.
Outstanding == {i \in 1..Len(pool.task) : pool.task[i] \in {"fetch", "text"}}

(***************************************************************************)
(* getCourses: new Map(csvParse(cache).map(...))                           *)
(***************************************************************************)

RECURSIVE MapKeys(_)
MapKeys(lines) ==
    IF lines = <<>> THEN <<>>
    ELSE LET init == MapKeys(SubSeq(lines, 1, Len(lines) - 1))
             c    == lines[Len(lines)].course
         IN  IF \E i \in 1..Len(init) : init[i] = c
             THEN init ELSE Append(init, c)

\* A Map keeps the first position of a key and its last value.
NewMap(lines) ==
    LET keys == MapKeys(lines)
    IN  [k \in 1..Len(keys) |->
            lines[CHOOSE j \in 1..Len(lines) :
                      /\ lines[j].course = keys[k]
                      /\ \A m \in (j + 1)..Len(lines) : lines[m].course # keys[k]]]

(***************************************************************************)
(* Init                                                                    *)
(***************************************************************************)

\* catalog, hints: how the two cached tables answered; overview, stub: the
\* objects this invocation has written; stubAt: the instant the stub key was
\* made; failed: the step an uncaught error ended the invocation at.
NoLog ==
    [catalog |-> "none", hints |-> "none", overview |-> FALSE, stub |-> FALSE,
     stubAt |-> 0, failed |-> "none"]

Reset ==
    /\ courses' = Null
    /\ pool' = EmptyPool
    /\ results' = <<>>
    /\ sections' = <<>>
    /\ overview' = Null
    /\ primary' = <<>>
    /\ stub' = <<>>
    /\ stubKey' = 0
    /\ log' = NoLog

InitProgram ==
    /\ clock = 0
    /\ run = 0
    /\ pc = "idle"
    /\ courses = Null
    /\ pool = EmptyPool
    /\ results = <<>>
    /\ sections = <<>>
    /\ overview = Null
    /\ primary = <<>>
    /\ stub = <<>>
    /\ stubKey = 0
    /\ log = NoLog
    /\ stubKeys = <<>>

Catalogs ==
    { <<>>,
      <<CatalogLine(EECS485, "Web Systems")>>,
      <<CatalogLine(EECS485, "Web Systems"), CatalogLine(EECS485, "Web Systems II")>>,
      <<CatalogLine(EECS485, "Web Systems"), CatalogLine(MATH115, "Calculus I")>>,
      <<CatalogLine(EECS485, "Web Systems"), CatalogLine(MATH115, "Calculus I"),
        CatalogLine(STDABRD303, "Study Abroad")>> }

\* One invocation, every page, a catalog of at most three courses (one of
\* the catalogs names a course twice).
Init ==
    /\ InitProgram
    /\ env \in [catalog : Catalogs, site : {Pages}, hung : {{}}, schedule : {1}]
    /\ store \in [overview : {Absent, PriorOverview}, stubs : {<<>>}]

\* The catalog of the pool study: more courses than NUM_OPERATIONS.
Surplus == 2

PoolCourse(i) == <<"M", "A", "T", "H">> \o Decimal(100 + i)

PoolCatalog ==
    [i \in 1..(NUM_OPERATIONS + Surplus) |-> CatalogLine(PoolCourse(i), "Topics")]

PoolCourses == {PoolCourse(i) : i \in 1..(NUM_OPERATIONS + Surplus)}

\* The requests of the pool study that may get a response: those for the
\* first two courses, for the last course of the first batch, for the first
\* course that waits for a slot and for the last course.  Every other
\* request hangs: it occupies its slot for good.
MayAnswer ==
    {PoolCourse(i) : i \in {1, 2, NUM_OPERATIONS, NUM_OPERATIONS + 1,
                            NUM_OPERATIONS + Surplus}}

\* One invocation over the large catalog, where all but a few requests hang;
\* and one over a catalog of one course, which runs to its end.
InitPool ==
    /\ InitProgram
    /\ \/ /\ env \in [catalog : {PoolCatalog}, site : {{PageLec}},
                      hung : {PoolCourses \ R : R \in SUBSET MayAnswer},
                      schedule : {1}]
          /\ store = [overview |-> Absent, stubs |-> <<>>]
       \/ /\ env = [catalog |-> <<CatalogLine(EECS485, "Web Systems")>>,
                    site |-> {PageLec}, hung |-> {}, schedule |-> 1]
          /\ store = [overview |-> PriorOverview, stubs |-> <<>>]

\* Several invocations, one after the other, over a catalog of one course.
InitRuns ==
    /\ InitProgram
    /\ env \in [catalog : {<<CatalogLine(EECS485, "Web Systems")>>},
                site : {{PageLec, PageLecDisInd}}, hung : {{}},
                schedule : {MaxRuns}]
    /\ store = [overview |-> Absent, stubs |-> <<>>]

\* One invocation over a catalog of two courses whose pages list one, two or
\* three sections.
InitOrder ==
    /\ InitProgram
    /\ env \in [catalog : {<<CatalogLine(EECS485, "Web Systems"),
                             CatalogLine(MATH115, "Calculus I")>>},
                site : {{PageLec, PageNoOpenSeats, PageLecDisInd}},
                hung : {{}},
                schedule : {1}]
    /\ store \in [overview : {Absent, PriorOverview}, stubs : {<<>>}]

\* One invocation over a catalog of one or two courses, where the request
\* for the second course may hang.
InitLive ==
    /\ InitProgram
    /\ env \in [catalog : {<<CatalogLine(EECS485, "Web Systems")>>,
                           <<CatalogLine(EECS485, "Web Systems"),
                             CatalogLine(MATH115, "Calculus I")>>},
                site : {{PageLec, PageNoColon}},
                hung : {{}, {MATH115}},
                schedule : {1}]
    /\ store \in [overview : {Absent, PriorOverview}, stubs : {<<>>}]

(***************************************************************************)
(* handler, step by step.  Each action runs the code from one await to     *)
(* the next.                                                               *)
(***************************************************************************)

\* The scheduler invokes handler: getCourses issues its fetch.
handler ==
    /\ pc \in {"idle", "done", "aborted"}
    /\ run < env.schedule
    /\ run' = run + 1
    /\ pc' = "getCourses"
    /\ Reset
    /\ UNCHANGED <<env, clock, store, stubKeys>>

\* An uncaught error: the promise of handler rejects.
Abort(lg, where) ==
    /\ pc' = "aborted"
    /\ log' = [lg EXCEPT !.failed = where]

\* What handler does once getSections has returned: getOverview issues its
\* fetch.
AfterSections(res, lg) ==
    /\ sections' = Flat(res)
    /\ pc' = "getOverview"
    /\ log' = [lg EXCEPT !.hints = "requested"]

\* A getSections that takes null for a catalog without courses.
getSectionsOfNothing(map, lg) ==
    IF map.null \/ Len(map.value) = 0
    THEN /\ pool' = replenish(NewPool(0))
         /\ results' = <<>>
         /\ AfterSections(<<>>, lg)
    ELSE /\ pool' = replenish(NewPool(Len(map.value)))
         /\ results' = [i \in 1..Len(map.value) |-> <<>>]
         /\ pc' = "getSections"
         /\ log' = lg
         /\ UNCHANGED sections

\* getSections(courses, term) up to its await: courses.entries() on null is
\* a TypeError; otherwise mapLimit starts the first tasks, and returns at
\* once when there is none.
getSections(map, lg) ==
    IF map.null
    THEN /\ Abort(lg, "entries")
         /\ UNCHANGED <<pool, results, sections>>
    ELSE /\ pool' = replenish(NewPool(Len(map.value)))
         /\ results' = [i \in 1..Len(map.value) |-> <<>>]
         /\ IF Len(map.value) = 0
            THEN AfterSections(<<>>, lg)
            ELSE /\ pc' = "getSections"
                 /\ log' = lg
                 /\ UNCHANGED sections

\* await fetch(cache-courses.csv) settles.
getCoursesResponse ==
    /\ pc = "getCourses"
    /\ \E outcome \in {"ok", "notok", "reject"} :
          CASE outcome = "ok" ->
                  /\ pc' = "getCoursesText"
                  /\ UNCHANGED <<courses, pool, results, sections, log>>
            [] outcome = "notok" ->
                  /\ courses' = Null
                  /\ getSections(Null, [log EXCEPT !.catalog = "unavailable"])
            [] outcome = "reject" ->
                  /\ Abort([log EXCEPT !.catalog = "failed"], "getCourses")
                  /\ UNCHANGED <<courses, pool, results, sections>>
    /\ UNCHANGED <<env, clock, run, overview, primary, stub, stubKey, store, stubKeys>>

\* await res.text() settles; on success getSections starts.
getCoursesText ==
    /\ pc = "getCoursesText"
    /\ \E outcome \in {"ok", "reject"} :
          IF outcome = "ok"
          THEN /\ courses' = NotNull(NewMap(env.catalog))
               /\ getSections(NotNull(NewMap(env.catalog)),
                              [log EXCEPT !.catalog = "ok"])
          ELSE /\ Abort([log EXCEPT !.catalog = "failed"], "getCourses")
               /\ UNCHANGED <<courses, pool, results, sections>>
    /\ UNCHANGED <<env, clock, run, overview, primary, stub, stubKey, store, stubKeys>>

\* Tasks that share one slot of the result list instead of their own.
SettleShared(i, state, list, err) ==
    LET p   == [pool EXCEPT !.task[i] = state]
        c   == iterateeCallback(p, err # "none")
        res == [results EXCEPT ![1] = list]
    IN  /\ pool' = c.pool
        /\ results' = res
        /\ IF pc = "getSections" /\ c.cb = "err"
           THEN /\ Abort(log, err)
                /\ UNCHANGED sections
           ELSE IF pc = "getSections" /\ c.cb = "null"
           THEN AfterSections(res, log)
           ELSE UNCHANGED <<pc, sections, log>>

\* What a task's callback does to the pool and, through mapLimit's final
\* callback, to handler (which listens only while it awaits getSections).
\* err is "none", "fetch" (a rejected request) or "extract" (a TypeError in
\* the extraction).
Settle(i, state, list, err) ==
    LET p   == [pool EXCEPT !.task[i] = state]
        c   == iterateeCallback(p, err # "none")
        res == [results EXCEPT ![i] = list]
    IN  /\ pool' = c.pool
        /\ results' = res
        /\ IF pc = "getSections" /\ c.cb = "err"
           THEN /\ Abort(log, err)
                /\ UNCHANGED sections
           ELSE IF pc = "getSections" /\ c.cb = "null"
           THEN AfterSections(res, log)
           ELSE UNCHANGED <<pc, sections, log>>

\* A getCourseSections that throws on a non-success status.
getCourseSectionsResponseThrowing ==
    /\ \E i \in 1..Len(pool.task) :
          /\ pool.task[i] = "fetch"
          /\ courses.value[i].course \notin env.hung
          /\ \E outcome \in {"ok", "notok", "reject"} :
                CASE outcome = "ok" ->
                        /\ pool' = [pool EXCEPT !.task[i] = "text"]
                        /\ UNCHANGED <<results, pc, sections, log>>
                  [] outcome = "notok" -> Settle(i, "notok", <<>>, "fetch")
                  [] outcome = "reject" -> Settle(i, "failed", <<>>, "fetch")
    /\ UNCHANGED <<env, clock, run, courses, overview, primary, stub, stubKey,
                   store, stubKeys>>

\* A getCourseSections that requests the page once more after a non-success
\* status.
getCourseSectionsResponseRetrying ==
    /\ \E i \in 1..Len(pool.task) :
          /\ pool.task[i] = "fetch"
          /\ courses.value[i].course \notin env.hung
          /\ \E outcome \in {"ok", "notok", "reject"} :
                CASE outcome = "ok" ->
                        /\ pool' = [pool EXCEPT !.task[i] = "text"]
                        /\ UNCHANGED <<results, pc, sections, log>>
                  [] outcome = "notok" ->
                        IF pool.calls[i] < 2
                        THEN /\ pool' = [pool EXCEPT !.calls[i] = @ + 1]
                             /\ UNCHANGED <<results, pc, sections, log>>
                        ELSE Settle(i, "notok", <<>>, "none")
                  [] outcome = "reject" -> Settle(i, "failed", <<>>, "fetch")
    /\ UNCHANGED <<env, clock, run, courses, overview, primary, stub, stubKey,
                   store, stubKeys>>

\* getCourseSections: await fetch(url.href) settles for course i.  A
\* non-success status returns [].
getCourseSectionsResponse ==
    /\ \E i \in 1..Len(pool.task) :
          /\ pool.task[i] = "fetch"
          /\ courses.value[i].course \notin env.hung
          /\ \E outcome \in {"ok", "notok", "reject"} :
                CASE outcome = "ok" ->
                        /\ pool' = [pool EXCEPT !.task[i] = "text"]
                        /\ UNCHANGED <<results, pc, sections, log>>
                  [] outcome = "notok" -> Settle(i, "notok", <<>>, "none")
                  [] outcome = "reject" -> Settle(i, "failed", <<>>, "fetch")
    /\ UNCHANGED <<env, clock, run, courses, overview, primary, stub, stubKey,
                   store, stubKeys>>

\* getCourseSections: await response.text() settles for course i, and the
\* rows of the page are extracted.
getCourseSectionsText ==
    /\ \E i \in 1..Len(pool.task) :
          /\ pool.task[i] = "text"
          /\ \/ Settle(i, "failed", <<>>, "fetch")
             \/ \E page \in env.site :
                   IF PageThrows(page)
                   THEN Settle(i, "failed", <<>>, "extract")
                   ELSE Settle(i, "ok",
                               PageSections(courses.value[i].course,
                                            courses.value[i].title,
                                            clock, page),
                               "none")
    /\ UNCHANGED <<env, clock, run, courses, overview, primary, stub, stubKey,
                   store, stubKeys>>

\* handler from getOverview's answer to the first client.send: the filter
\* throws on a record without Section, otherwise the summaries are made and
\* the put of overview.csv is issued.
Aggregate(hints, lg) ==
    /\ overview' = hints
    /\ IF FilterThrows(sections)
       THEN /\ Abort(lg, "filter")
            /\ UNCHANGED primary
       ELSE /\ pc' = "putOverview"
            /\ log' = lg
            /\ primary' = Primary(sections, hints)

\* A getOverview that throws on a non-success status.
getOverviewResponseThrowing ==
    /\ pc = "getOverview"
    /\ \E outcome \in {"ok", "notok", "reject"} :
          CASE outcome = "ok" ->
                  /\ store.overview.exists
                  /\ pc' = "getOverviewText"
                  /\ UNCHANGED <<overview, primary, log>>
            [] outcome = "notok" ->
                  /\ Abort([log EXCEPT !.hints = "unavailable"], "getOverview")
                  /\ UNCHANGED <<overview, primary>>
            [] outcome = "reject" ->
                  /\ Abort([log EXCEPT !.hints = "failed"], "getOverview")
                  /\ UNCHANGED <<overview, primary>>
    /\ UNCHANGED <<env, clock, run, courses, pool, results, sections, stub,
                   stubKey, store, stubKeys>>

\* await fetch(overview.csv) settles.  A success status needs the object.
getOverviewResponse ==
    /\ pc = "getOverview"
    /\ \E outcome \in {"ok", "notok", "reject"} :
          CASE outcome = "ok" ->
                  /\ store.overview.exists
                  /\ pc' = "getOverviewText"
                  /\ UNCHANGED <<overview, primary, log>>
            [] outcome = "notok" ->
                  Aggregate(Null, [log EXCEPT !.hints = "unavailable"])
            [] outcome = "reject" ->
                  /\ Abort([log EXCEPT !.hints = "failed"], "getOverview")
                  /\ UNCHANGED <<overview, primary>>
    /\ UNCHANGED <<env, clock, run, courses, pool, results, sections, stub,
                   stubKey, store, stubKeys>>

\* await res.text() settles: the overview is parsed and indexed.
getOverviewText ==
    /\ pc = "getOverviewText"
    /\ \E outcome \in {"ok", "reject"} :
          IF outcome = "ok"
          THEN Aggregate(NotNull(index(store.overview.body)),
                         [log EXCEPT !.hints = "ok"])
          ELSE /\ Abort([log EXCEPT !.hints = "failed"], "getOverview")
               /\ UNCHANGED <<overview, primary>>
    /\ UNCHANGED <<env, clock, run, courses, pool, results, sections, stub,
                   stubKey, store, stubKeys>>

\* The stub table as text.
StubCsvRow(row) ==
    [Course |-> row.Course, Time |-> row.Time,
     Section |-> IF row.Section = Undefined THEN <<>> ELSE row.Section,
     Mode |-> IF row.Mode = Undefined THEN <<>> ELSE row.Mode,
     Number |-> IF row.Number = Undefined THEN <<>> ELSE row.Number,
     Status |-> IF row.Status = Undefined THEN <<>> ELSE row.Status,
     OpenSeats |-> IF row.OpenSeats = Undefined THEN <<>> ELSE row.OpenSeats,
     WaitList |-> NumberToString(row.WaitList)]

StubCsv(rows) == [i \in 1..Len(rows) |-> StubCsvRow(rows[i])]

\* A handler that catches the error of the first client.send and goes on.
putOverviewCaught ==
    /\ pc = "putOverview"
    /\ \E outcome \in {"ok", "reject"} :
          /\ IF outcome = "ok"
             THEN /\ store' = [store EXCEPT !.overview = Object(csvFormat(primary))]
                  /\ log' = [log EXCEPT !.overview = TRUE, !.stubAt = clock]
             ELSE /\ store' = store
                  /\ log' = [log EXCEPT !.stubAt = clock]
          /\ stub' = Stub(sections)
          /\ stubKey' = dateToNearestHour(clock)
          /\ pc' = "putStub"
    /\ UNCHANGED <<env, clock, run, courses, pool, results, sections, overview,
                   primary, stubKeys>>

\* The first client.send settles: overview.csv is overwritten, the stub is
\* built and its put is issued under a key made from the hour.
putOverview ==
    /\ pc = "putOverview"
    /\ \E outcome \in {"ok", "reject"} :
          IF outcome = "ok"
          THEN /\ store' = [store EXCEPT !.overview = Object(csvFormat(primary))]
               /\ log' = [log EXCEPT !.overview = TRUE, !.stubAt = clock]
               /\ stub' = Stub(sections)
               /\ stubKey' = dateToNearestHour(clock)
               /\ pc' = "putStub"
          ELSE /\ Abort(log, "putOverview")
               /\ UNCHANGED <<store, stub, stubKey>>
    /\ UNCHANGED <<env, clock, run, courses, pool, results, sections, overview,
                   primary, stubKeys>>

\* The second client.send settles: the stub object is written.
putStub ==
    /\ pc = "putStub"
    /\ \E outcome \in {"ok", "reject"} :
          IF outcome = "ok"
          THEN /\ store' = [store EXCEPT !.stubs =
                               [k \in DOMAIN store.stubs \cup {stubKey} |->
                                   IF k = stubKey THEN StubCsv(stub)
                                   ELSE store.stubs[k]]]
               /\ log' = [log EXCEPT !.stub = TRUE]
               /\ stubKeys' = Append(stubKeys, [key |-> stubKey, at |-> log.stubAt])
               /\ pc' = "done"
          ELSE /\ Abort(log, "putStub")
               /\ UNCHANGED <<store, stubKeys>>
    /\ UNCHANGED <<env, clock, run, courses, pool, results, sections, overview,
                   primary, stub, stubKey>>

\* Time passes.
Tick ==
    /\ clock < MaxTicks * TickMs
    /\ clock' = clock + TickMs
    /\ UNCHANGED <<env, run, pc, courses, pool, results, sections, overview,
                   primary, stub, stubKey, store, log, stubKeys>>

Next ==
    \/ handler
    \/ getCoursesResponse
    \/ getCoursesText
    \/ getCourseSectionsResponse
    \/ getCourseSectionsText
    \/ getOverviewResponse
    \/ getOverviewText
    \/ putOverview
    \/ putStub
    \/ Tick

Spec == Init /\ [][Next]_vars

\* A network operation of the run settles and the code that awaits it
\* resumes.
Settles ==
    \/ getCoursesResponse
    \/ getCoursesText
    \/ getCourseSectionsResponse
    \/ getCourseSectionsText
    \/ getOverviewResponse
    \/ getOverviewText
    \/ putOverview
    \/ putStub

\* While an operation that can settle is pending, one of them settles: the
\* requests that hang are those of env.hung, for which no step is enabled.
Settling == WF_vars(Settles)

SpecLive == InitLive /\ [][Next]_vars /\ Settling

SpecOrder == InitOrder /\ [][Next]_vars

SpecPool == InitPool /\ [][Next]_vars

SpecRuns == InitRuns /\ [][Next]_vars

(***************************************************************************)
(* The claims                                                              *)
(***************************************************************************)

\* C1: at every instant of the Section Fetcher phase, whatever the size of
\* the catalog and the order the fetches settle in, at most 25 detail
\* fetches have been started and have not yet settled.
C1_AtMost25Outstanding == Cardinality(Outstanding) <= 25

\* 25 fetches are outstanding after one has settled and the 26th course
\* has taken its slot.
C1_Witness ==
    /\ pc = "getSections"
    /\ Cardinality(Outstanding) = 25
    /\ pool.next > 25
    /\ \E i \in 1..Len(pool.task) : pool.task[i] \in {"ok", "notok"}

\* The course a summary row is about, as getOverview keys it.
RowCourse(row) == row.department \o NumberToString(row.number)

\* The steps of handler at which the summaries exist, and at which the stub
\* rows exist.
Aggregated == pc \in {"putOverview", "putStub", "done"}

Stubbed == pc \in {"putStub", "done"}

\* C2 as stated: a run that ends, aborted or not, has written both the
\* overview and the stub or neither of them.
C2_BothOrNeither ==
    pc \in {"done", "aborted"} => (log.overview <=> log.stub)

\* C2 as amended: a run aborted by a failure raised before the overview put
\* has succeeded writes neither object; the stub is never written without
\* the overview; a run whose stub put is rejected has written the overview
\* alone.
C2_NoPublishBeforeFirstPut ==
    /\ (pc = "aborted" /\ log.failed # "putStub") =>
           (~log.overview /\ ~log.stub)
    /\ (pc = "aborted" /\ log.failed = "putStub") =>
           (log.overview /\ ~log.stub)
    /\ log.stub => log.overview
    /\ ~log.overview => store.overview \in {Absent, PriorOverview}
    /\ ~log.stub => store.stubs = <<>>

\* A run aborted by a rejected detail fetch, after another course's records
\* had been extracted: nothing is written.
C2_Witness ==
    /\ pc = "aborted"
    /\ log.failed = "fetch"
    /\ \E i \in 1..Len(pool.task) : pool.task[i] = "ok" /\ results[i] # <<>>
    /\ ~log.overview
    /\ ~log.stub

\* C3: a course whose detail fetch answers with a non-success status gives
\* no record, surfaces no error (an abort in the fetch phase needs a task
\* that failed), and has no row in the overview or in the stub, in memory
\* or in the bucket; the records of every other course are all there.
C3_NotOkCourseSkipped ==
    /\ \A i \in 1..Len(pool.task) :
          pool.task[i] = "notok" =>
             LET c == courses.value[i].course
             IN  /\ results[i] = <<>>
                 /\ pc \in {"getOverview", "getOverviewText"} \/ Aggregated =>
                       \A k \in 1..Len(sections) : sections[k].Course # c
                 /\ Aggregated =>
                       \A k \in 1..Len(primary) : RowCourse(primary[k]) # c
                 /\ Stubbed =>
                       /\ \A k \in 1..Len(stub) : stub[k].Course # c
                       /\ \A k \in 1..Len(store.overview.body) :
                             store.overview.body[k].department \o
                                 store.overview.body[k].number # c
                 /\ pc = "done" =>
                       \A k \in 1..Len(store.stubs[stubKey]) :
                             store.stubs[stubKey][k].Course # c
    /\ \A j \in 1..Len(pool.task) :
          (pool.task[j] = "ok" /\ (pc \in {"getOverview", "getOverviewText"} \/ Aggregated)) =>
             SelectSeq(sections, LAMBDA d : d.Course = courses.value[j].course)
                 = results[j]
    /\ (pc = "aborted" /\ log.failed \in {"fetch", "extract"}) =>
          \E j \in 1..Len(pool.task) : pool.task[j] = "failed"

\* A finished run with a course that answered 404 and a course whose records
\* were summarised and published.
C3_Witness ==
    /\ pc = "done"
    /\ log.overview /\ log.stub
    /\ \E i \in 1..Len(pool.task) : pool.task[i] = "notok"
    /\ \E j \in 1..Len(pool.task) : pool.task[j] = "ok" /\ results[j] # <<>>
    /\ primary # <<>>

\* C4: in every summary capacity >= available; capacity is the hint when
\* the course has a hint and the hint exceeds available, and capacity is
\* available when the course has no hint or the hint does not exceed it.
C4_CapacityRule ==
    Aggregated =>
       \A k \in 1..Len(primary) :
          LET row    == primary[k]
              hinted == ~overview.null /\ RowCourse(row) \in DOMAIN overview.value
              hint   == overview.value[RowCourse(row)].capacity
              above  == hinted /\ ~hint.nan /\ hint.v > row.available
          IN  /\ row.capacity >= row.available
              /\ above => row.capacity = hint.v
              /\ ~above => row.capacity = row.available

\* A published summary whose capacity is the hint, above what is open.
C4_Witness ==
    /\ pc = "done"
    /\ \E k \in 1..Len(primary) :
          /\ primary[k].capacity > primary[k].available
          /\ primary[k].available > 0

\* The countable labels, as the claim names them.
CountableLabel(label) ==
    /\ label # Undefined
    /\ \/ Includes(label, <<"L", "E", "C">>)
       \/ Includes(label, <<"S", "E", "M">>)
       \/ Includes(label, <<"R", "E", "C">>)
       \/ Includes(label, <<"I", "N", "D">>)

HasCountable(c) ==
    \E k \in 1..Len(sections) :
        sections[k].Course = c /\ CountableLabel(Get(sections[k], K_Section))

\* C5: the overview has exactly one row for each course with a countable
\* section (LEC, SEM, REC, IND) among the fetched records and no other row;
\* the stub has one row for every fetched record, countable or not.
C5_OneRowPerCountableCourse ==
    /\ Aggregated =>
          /\ \A i \in 1..Len(courses.value) :
                LET c == courses.value[i].course
                IN  Cardinality({k \in 1..Len(primary) : RowCourse(primary[k]) = c})
                        = IF HasCountable(c) THEN 1 ELSE 0
          /\ Len(primary) =
                Cardinality({i \in 1..Len(courses.value) :
                                HasCountable(courses.value[i].course)})
    /\ Stubbed =>
          /\ Len(stub) = Len(sections)
          /\ \A k \in 1..Len(stub) :
                /\ stub[k].Course = sections[k].Course
                /\ stub[k].Section = Get(sections[k], K_Section)
          /\ Len(store.overview.body) = Len(primary)
    /\ pc = "done" => Len(store.stubs[stubKey]) = Len(sections)

\* A finished run in which a course with a discussion section only has no
\* summary row and has its row in the stub written to the bucket.
C5_Witness ==
    /\ pc = "done"
    /\ \E i \in 1..Len(courses.value) :
          LET c == courses.value[i].course
          IN  /\ ~HasCountable(c)
              /\ \A k \in 1..Len(primary) : RowCourse(primary[k]) # c
              /\ \E k \in 1..Len(store.stubs[stubKey]) :
                    store.stubs[stubKey][k].Course = c
    /\ primary # <<>>

\* C6 as stated: the wait list of every stub row is a non-negative integer,
\* 0 when the page gave "-", and so is the waitlist of every summary.
C6_WaitListNonNegative ==
    /\ Stubbed =>
          \A k \in 1..Len(stub) :
             /\ ~stub[k].WaitList.nan
             /\ stub[k].WaitList.v >= 0
             /\ Get(sections[k], K_WaitList) = Dash => stub[k].WaitList.v = 0
    /\ Aggregated => \A k \in 1..Len(primary) : primary[k].waitlist >= 0

\* C7 as stated: no two runs write their stub to the same key (stated of
\* runs whose stub puts are made at different instants).
C7_StubKeysUnique ==
    \A i, j \in 1..Len(stubKeys) :
        stubKeys[i].at # stubKeys[j].at => stubKeys[i].key # stubKeys[j].key

\* C7 as amended: the stub key of a run is the instant of its stub put
\* rounded to the nearest hour, so runs whose puts are an hour or more apart
\* write different keys; the bucket holds one stub for each key written.
C7_StubKeyIsNearestHour ==
    /\ \A i \in 1..Len(stubKeys) :
          /\ stubKeys[i].key % rounder = 0
          /\ 2 * (stubKeys[i].key - stubKeys[i].at) <= rounder
          /\ 2 * (stubKeys[i].at - stubKeys[i].key) <= rounder
    /\ \A i, j \in 1..Len(stubKeys) :
          stubKeys[i].at - stubKeys[j].at >= rounder =>
              stubKeys[i].key # stubKeys[j].key
    /\ DOMAIN store.stubs = {stubKeys[i].key : i \in 1..Len(stubKeys)}

\* Two finished runs an hour apart, each with a stub of its own.
C7_Witness ==
    /\ Len(stubKeys) = 2
    /\ stubKeys[2].at - stubKeys[1].at >= rounder
    /\ stubKeys[1].key # stubKeys[2].key
    /\ Cardinality(DOMAIN store.stubs) = 2

\* C8 as stated: a page whose rows lack a label or hold a cell that is not
\* "Key: Value" raises no error, neither in the extraction nor in the
\* aggregation.
C8_NoErrorFromLabels ==
    pc = "aborted" => log.failed \notin {"extract", "filter"}

\* C9: when the catalog is unavailable the run aborts with no detail fetch
\* started, the hints not requested and nothing written.
C9_CatalogUnavailableAborts ==
    log.catalog = "unavailable" =>
       /\ pc = "aborted"
       /\ pool = EmptyPool
       /\ log.hints = "none"
       /\ ~log.overview /\ ~log.stub
       /\ store.overview \in {Absent, PriorOverview}
       /\ store.stubs = <<>>

\* A run aborted on the null catalog.
C9_Witness ==
    /\ log.catalog = "unavailable"
    /\ pc = "aborted"
    /\ log.failed = "entries"

\* C10: when the hints are unavailable the run goes on to the puts (it does
\* not end at getOverview), and every summary has capacity = available.
C10_HintsUnavailableIsNotFatal ==
    log.hints = "unavailable" =>
       /\ overview.null
       /\ log.failed # "getOverview"
       /\ pc \in {"putOverview", "putStub", "done"} \/ log.failed # "none"
       /\ \A k \in 1..Len(primary) : primary[k].capacity = primary[k].available

\* A run that found no hints and published both objects, the bucket holding
\* an earlier overview all along.
C10_Witness ==
    /\ log.hints = "unavailable"
    /\ pc = "done"
    /\ log.overview /\ log.stub
    /\ primary # <<>>

\* Record lists of at most this length are aggregated in every order.
MaxPermuted == 4

Permute(seq, f) == [i \in 1..Len(seq) |-> seq[f[i]]]

AsSet(seq) == {seq[i] : i \in 1..Len(seq)}

\* C11: with the hints fixed, aggregating the same records in another order
\* gives the same set of summaries: in every order of the per-course lists
\* (the orders the fetches can complete in), and in every order of the
\* records themselves.  Stated where the summaries have just been made.
C11_OrderInsensitive ==
    pc = "putOverview" =>
       /\ \A f \in Permutations(1..Len(results)) :
             AsSet(Primary(Flat(Permute(results, f)), overview)) = AsSet(primary)
       /\ Len(sections) <= MaxPermuted =>
             \A f \in Permutations(1..Len(sections)) :
                AsSet(Primary(Permute(sections, f), overview)) = AsSet(primary)

\* Summaries of two courses, one of them summing two countable sections,
\* and an order of the records that interleaves the courses and yields the
\* summaries in another sequence.
C11_Witness ==
    /\ pc = "putOverview"
    /\ Len(primary) = 2
    /\ Len(sections) = 4
    /\ \E f \in Permutations(1..Len(sections)) :
          LET p == Permute(sections, f)
          IN  /\ p[1].Course # p[2].Course /\ p[2].Course # p[3].Course
              /\ Primary(p, overview) # primary
              /\ AsSet(Primary(p, overview)) = AsSet(primary)

\* The steps of handler after getSections has returned.
PastSections ==
    pc \in {"getOverview", "getOverviewText"} \/ Aggregated

\* Every course of the catalog has had its fetch settled without error.
AllSettled ==
    /\ ~courses.null
    /\ Len(pool.task) = Len(courses.value)
    /\ Len(results) = Len(courses.value)
    /\ \A i \in 1..Len(pool.task) : pool.task[i] \in {"ok", "notok"}

\* C12: the phases of a run are strictly ordered.  Once the run has asked
\* for the hints or written anything, every course's fetch has settled (none
\* is outstanding, none has yet to start) and the records are those of all
\* courses; the summaries are made from all of them; the stub put is issued,
\* and the stub written, only after the overview has been written.
C12_PhasesOrdered ==
    /\ (PastSections \/ log.hints # "none" \/ log.overview \/ log.stub) =>
          /\ AllSettled
          /\ Outstanding = {}
          /\ sections = Flat(results)
    /\ Aggregated => primary = Primary(Flat(results), overview)
    /\ pc = "putOverview" => ~log.overview /\ ~log.stub /\ stub = <<>>
    /\ pc = "putStub" => log.overview /\ ~log.stub
    /\ log.stub => log.overview
    /\ stub # <<>> => log.overview

\* The stub put of a run over three courses is pending: all three fetches
\* have settled and the overview is written.
C12_Witness ==
    /\ pc = "putStub"
    /\ Len(pool.task) = 3
    /\ AllSettled
    /\ \E i \in 1..3 : pool.task[i] = "ok" /\ results[i] # <<>>
    /\ log.overview

\* The number of requests issued for the detail page of course c by the
\* first n tasks of the run.
RECURSIVE CallsUpTo(_, _)
CallsUpTo(c, n) ==
    IF n = 0 THEN 0
    ELSE CallsUpTo(c, n - 1)
            + (IF courses.value[n].course = c THEN pool.calls[n] ELSE 0)

CallsFor(c) == CallsUpTo(c, Len(pool.task))

\* C13: there are no retries.  In a run, the detail page of each course of
\* the catalog is requested at most once, and exactly once when the run has
\* got past the fetch phase, whether the request was answered with success
\* or not; a task has issued its one request exactly when it has started.
C13_NoRetry ==
    /\ \A k \in 1..Len(env.catalog) :
          LET c == env.catalog[k].course
          IN  /\ CallsFor(c) <= 1
              /\ PastSections => CallsFor(c) = 1
    /\ \A i \in 1..Len(pool.task) :
          pool.calls[i] = (IF pool.task[i] = "new" THEN 0 ELSE 1)

\* A finished run in which one course answered with a non-success status
\* and another with success: each page was requested once.
C13_Witness ==
    /\ pc = "done"
    /\ Len(pool.task) >= 2
    /\ pool.task[1] = "notok" /\ CallsFor(courses.value[1].course) = 1
    /\ pool.task[2] = "ok" /\ CallsFor(courses.value[2].course) = 1

\* The count a record carries under a label: the number the page gave, zero
\* for the sentinel "-" and for a label the page row did not carry.
CountOf(d, key) ==
    LET text == Get(d, key)
    IN  IF text # Undefined /\ text # <<>> /\ AllDigits(text)
        THEN DigitsValue(text) ELSE 0

\* The total of a label over the countable sections of course c among the
\* first n fetched records.
RECURSIVE CountableTotal(_, _, _)
CountableTotal(c, key, n) ==
    IF n = 0 THEN 0
    ELSE CountableTotal(c, key, n - 1)
            + (IF /\ sections[n].Course = c
                  /\ CountableLabel(Get(sections[n], K_Section))
               THEN CountOf(sections[n], key) ELSE 0)

\* The labels and values of each record of a list.
FieldsOf(list) == [j \in 1..Len(list) |-> list[j].fields]

\* The records of a page that lists LEC001 with 5 open seats, DIS201 with 10
\* and IND401 with 2.
LecDisIndFields == FieldsOf(PageSections(<<>>, <<>>, 0, PageLecDisInd))

\* C14: in every summary, available is the total of the open seats and
\* waitlist the total of the wait-list values ("-" counting as 0) of exactly
\* the countable sections of the course; a discussion section adds to
\* neither.  A course with LEC001 (5 open), DIS201 (10 open) and IND401
\* (2 open) and no hint has available 7 and capacity 7.
C14_SumsOverCountable ==
    Aggregated =>
       /\ \A k \in 1..Len(primary) :
             LET c == RowCourse(primary[k])
             IN  /\ primary[k].available
                       = CountableTotal(c, K_OpenSeats, Len(sections))
                 /\ primary[k].waitlist
                       = CountableTotal(c, K_WaitList, Len(sections))
       /\ \A i \in 1..Len(results) :
             FieldsOf(results[i]) = LecDisIndFields =>
                \E k \in 1..Len(primary) :
                   /\ RowCourse(primary[k]) = courses.value[i].course
                   /\ primary[k].available = 7
                   /\ primary[k].waitlist = 3
                   /\ ~Has(overview, courses.value[i].course) =>
                         primary[k].capacity = 7

\* A published summary of a course whose page listed LEC001 with 5 open
\* seats, DIS201 with 10 and IND401 with 2, without a hint: 7 available and
\* a capacity of 7.
C14_Witness ==
    /\ pc = "done"
    /\ overview.null
    /\ \E i \in 1..Len(results) :
          /\ FieldsOf(results[i]) = LecDisIndFields
          /\ \E k \in 1..Len(primary) :
                /\ RowCourse(primary[k]) = courses.value[i].course
                /\ primary[k].available = 7
                /\ primary[k].capacity = 7

\* The number of records in the first n per-course lists.
RECURSIVE RecordsUpTo(_)
RecordsUpTo(n) == IF n = 0 THEN 0 ELSE RecordsUpTo(n - 1) + Len(results[n])

\* The records handler holds are those of the per-course lists, each once
\* and under its own course, and the stub has one row per record.
ExactUnion ==
    /\ \A i \in 1..Len(results) :
          /\ pool.task[i] # "ok" => results[i] = <<>>
          /\ \A j \in 1..Len(results[i]) :
                /\ results[i][j].Course = courses.value[i].course
                /\ results[i][j].title = courses.value[i].title
    /\ PastSections =>
          /\ Len(sections) = RecordsUpTo(Len(results))
          /\ \A i \in 1..Len(results) :
                SelectSeq(sections, LAMBDA d : d.Course = courses.value[i].course)
                    = results[i]
          /\ \A k \in 1..Len(sections) :
                \E n \in 1..Len(env.catalog) :
                    sections[k].Course = env.catalog[n].course
    /\ Stubbed =>
          /\ Len(stub) = Len(sections)
          /\ \A k \in 1..Len(stub) :
                /\ stub[k].Course = sections[k].Course
                /\ stub[k].Section = Get(sections[k], K_Section)
                /\ stub[k].OpenSeats = Get(sections[k], K_OpenSeats)

\* A step writes the list of course i only when the page text of course i
\* arrives, and writes the records of a page served for that course.
OwnSlotOnly ==
    Len(results') = Len(results) =>
       \A i \in 1..Len(results) :
          results'[i] # results[i] =>
             /\ pool.task[i] = "text"
             /\ pool'.task[i] = "ok"
             /\ \E page \in env.site :
                   results'[i] = PageSections(courses.value[i].course,
                                              courses.value[i].title, clock, page)

\* C15: under every interleaving of the fetches, the flattened records and
\* the stub (one row per record) are exactly the per-course lists of the
\* courses whose fetch succeeded: no record is lost, duplicated or put under
\* another course, and every record's course is a course of the catalog.
C15_ExactUnion == []ExactUnion /\ [][OwnSlotOnly]_vars

\* A finished run over three courses in which the page of the third course
\* arrived an hour before the page of the first, and both gave records.
C15_Witness ==
    /\ pc = "done"
    /\ Len(results) = 3
    /\ results[1] # <<>> /\ results[3] # <<>>
    /\ Len(results[1]) # Len(results[3])
    /\ results[3][1].Time < results[1][1].Time
    /\ Len(stub) = Len(results[1]) + Len(results[2]) + Len(results[3])

\* The request for the detail page of a course of the catalog never settles.
SomeHung == \E k \in 1..Len(env.catalog) : env.catalog[k].course \in env.hung

\* C16: when every network operation the run issues settles, a run that has
\* started ends: both puts have completed or an error has aborted it.  When
\* the request for one course's detail page never settles, the run never
\* gets past the fetch phase, so it never publishes.
C16_Terminates ==
    /\ (pc = "getCourses" /\ ~SomeHung) ~> (pc \in {"done", "aborted"})
    /\ [](SomeHung => ~PastSections /\ ~log.overview /\ ~log.stub)

\* A run over two courses whose requests all settled has completed both
\* puts.
C16_Witness ==
    /\ pc = "done"
    /\ ~SomeHung
    /\ Len(pool.task) = 2
    /\ log.overview /\ log.stub

\* The course and the capacity of a row of the overview.csv in the bucket.
StoredCourse(line) == line.department \o line.number

StoredCapacity(line) == DigitsValue(line.capacity)

\* The rows of the overview.csv in the bucket for course c.  Before the
\* first put of a run they are what the last run that published has left.
StoredRows(c) ==
    {j \in 1..Len(store.overview.body) : StoredCourse(store.overview.body[j]) = c}

=============================================================================
